---- MODULE Spec2Model ----
(***************************************************************************)
(* Model of the PromptLab chat session: the CommandChatView component      *)
(* (src/src/components/CommandChatView.tsx) driving the useModel hook      *)
(* (src/src/hooks/useModel.ts).                                            *)
(*                                                                         *)
(* Texts are TLA+ strings; Len, \o and SubSeq act on them as JavaScript's  *)
(* length, + and substring do.  One action is one JavaScript task (a UI    *)
(* handler up to its first await, a continuation after an await, a network *)
(* callback) followed by the React render and the effects it triggers,     *)
(* with the state updates of one task applied as one batch.                *)
(*                                                                         *)
(* Scope: the base prompt is non-empty, none of the texts contains a '$'   *)
(* (String.replace replacement patterns are not exercised), and the        *)
(* native-AI branch is modelled up to the capability check; with the       *)
(* capability available the hook hands over to the platform's useAI, which *)
(* is not part of this repository.                                         *)
(***************************************************************************)
EXTENDS Integers, Sequences, FiniteSets, TLC

(***************************************************************************)
(* JavaScript string primitives                                            *)
(***************************************************************************)

\* s.charAt(i - 1)
CharAt(s, i) == SubSeq(s, i, i)

\* s.includes(sub)
Includes(s, sub) ==
  \E i \in 0..(Len(s) - Len(sub)) : SubSeq(s, i + 1, i + Len(sub)) = sub

\* sub occurs in s at one of the offsets lo..hi
OccursIn(s, sub, lo, hi) ==
  \E i \in lo..hi : SubSeq(s, i + 1, i + Len(sub)) = sub

\* the least offset in lo..hi at which sub occurs in s (there is one)
RECURSIVE FirstOffset(_, _, _, _)
FirstOffset(s, sub, lo, hi) ==
  IF lo = hi THEN lo
  ELSE LET mid == (lo + hi) \div 2
       IN  IF OccursIn(s, sub, lo, mid)
             THEN FirstOffset(s, sub, lo, mid)
             ELSE FirstOffset(s, sub, mid + 1, hi)

\* s.indexOf(sub) + 1, 0 when sub does not occur
IndexOf(s, sub) ==
  IF Includes(s, sub) THEN 1 + FirstOffset(s, sub, 0, Len(s) - Len(sub)) ELSE 0

\* s.replace(pat, rep) with a string pattern: the first occurrence only
ReplaceFirst(s, pat, rep) ==
  LET k == IndexOf(s, pat)
  IN  IF k = 0 THEN s
      ELSE SubSeq(s, 1, k - 1) \o rep \o SubSeq(s, k + Len(pat), Len(s))

\* s.replaceAll(pat, rep) with a non-empty string pattern: every occurrence,
\* left to right, the inserted text is not scanned again
RECURSIVE ReplaceAll(_, _, _)
ReplaceAll(s, pat, rep) ==
  LET k == IndexOf(s, pat)
  IN  IF k = 0 THEN s
      ELSE SubSeq(s, 1, k - 1) \o rep
             \o ReplaceAll(SubSeq(s, k + Len(pat), Len(s)), pat, rep)

\* the characters matched by \s (and \n, \r) among the texts of the model
IsSpace(c) == c \in {" ", "\n", "\r", "\t"}

\* the image of the characters lo..hi of s under a per-position map,
\* concatenated (halving keeps the evaluation shallow on long texts)
RECURSIVE MapCat(_, _, _, _)
MapCat(F(_, _), s, lo, hi) ==
  IF lo > hi THEN ""
  ELSE IF lo = hi THEN F(s, lo)
  ELSE LET mid == (lo + hi) \div 2
       IN  MapCat(F, s, lo, mid) \o MapCat(F, s, mid + 1, hi)

CollapseAt(s, i) ==
  IF IsSpace(CharAt(s, i))
    THEN IF i > 1 /\ IsSpace(CharAt(s, i - 1)) THEN "" ELSE " "
    ELSE CharAt(s, i)

\* s.replaceAll(/[\n\r\s]+/g, " ")
CollapseSpace(s) == MapCat(CollapseAt, s, 1, Len(s))

EscapeAt(s, i) == IF CharAt(s, i) = "\"" THEN "\\\"" ELSE CharAt(s, i)

\* s.replaceAll('"', '\\"')
EscapeQuotes(s) == MapCat(EscapeAt, s, 1, Len(s))

RECURSIVE TrimStart(_)
TrimStart(s) ==
  IF Len(s) > 0 /\ IsSpace(CharAt(s, 1)) THEN TrimStart(Tail(s)) ELSE s

RECURSIVE TrimEnd(_)
TrimEnd(s) ==
  IF Len(s) > 0 /\ IsSpace(CharAt(s, Len(s)))
    THEN TrimEnd(SubSeq(s, 1, Len(s) - 1)) ELSE s

\* s.trim()
Trim(s) == TrimEnd(TrimStart(s))

\* arr.join(sep)
RECURSIVE Join(_, _)
Join(arr, sep) ==
  IF Len(arr) = 0 THEN ""
  ELSE IF Len(arr) = 1 THEN arr[1]
  ELSE arr[1] \o sep \o Join(Tail(arr), sep)

Digit(n) == SubSeq("0123456789", n + 1, n + 1)

\* String(n) for a non-negative integer n
RECURSIVE NumToString(_)
NumToString(n) ==
  IF n < 10 THEN Digit(n) ELSE NumToString(n \div 10) \o Digit(n % 10)

IsDigits(s) == Len(s) > 0 /\ \A i \in 1..Len(s) : Includes("0123456789", CharAt(s, i))

DigitVal(c) == IndexOf("0123456789", c) - 1

RECURSIVE DecVal(_)
DecVal(s) == IF Len(s) = 0 THEN 0
             ELSE 10 * DecVal(SubSeq(s, 1, Len(s) - 1)) + DigitVal(CharAt(s, Len(s)))

RECURSIVE StripZeros(_)
StripZeros(s) == IF Len(s) > 1 /\ CharAt(s, 1) = "0" THEN StripZeros(Tail(s)) ELSE s

\* s > n for a string s and a number n < 10^9: s is converted with
\* Number(s), which is NaN (and the comparison false) unless s is a numeric
\* literal; among the texts of the model the numeric literals are the
\* strings of decimal digits
StringGreaterThan(s, n) ==
  /\ IsDigits(s)
  /\ LET z == StripZeros(s)
     IN  IF Len(z) > 9 THEN TRUE ELSE DecVal(z) > n

(***************************************************************************)
(* JavaScript values: the parsed model output (modelOutput) and what get   *)
(* returns                                                                 *)
(***************************************************************************)

JStr(s) == [t |-> "string", s |-> s]
JNum(n) == [t |-> "number", n |-> n]
JBool(b) == [t |-> "boolean", b |-> b]
JNull == [t |-> "null"]
JUndefined == [t |-> "undefined"]
JArr(a) == [t |-> "array", a |-> a]
JObj(o) == [t |-> "object", o |-> o]
\* a TypeError thrown while evaluating an expression
JTypeError == [t |-> "TypeError"]

\* !v is false
Truthy(v) ==
  CASE v.t = "string" -> Len(v.s) > 0
    [] v.t = "number" -> v.n # 0
    [] v.t = "boolean" -> v.b
    [] v.t \in {"array", "object"} -> TRUE
    [] OTHER -> FALSE

\* typeof v == "object"
TypeofObject(v) == v.t \in {"object", "array", "null"}

\* v[key] for a value v that is neither null nor undefined; the keys of the
\* model are not names of built-in methods
Property(v, key) ==
  CASE v.t = "object" ->
         IF key \in DOMAIN v.o THEN v.o[key] ELSE JUndefined
    [] v.t = "array" ->
         IF key = "length" THEN JNum(Len(v.a))
         ELSE IF IsDigits(key) /\ StripZeros(key) = key /\ Len(key) < 9
                 /\ DecVal(key) < Len(v.a)
           THEN v.a[DecVal(key) + 1]
           ELSE JUndefined
    [] v.t = "string" ->
         IF key = "length" THEN JNum(Len(v.s))
         ELSE IF IsDigits(key) /\ StripZeros(key) = key /\ Len(key) < 9
                 /\ DecVal(key) < Len(v.s)
           THEN JStr(CharAt(v.s, DecVal(key) + 1))
           ELSE JUndefined
    [] OTHER -> JUndefined

\* s.split(sep) for a one-character separator
RECURSIVE Split(_, _)
Split(s, sep) ==
  LET k == IndexOf(s, sep)
  IN  IF k = 0 THEN <<s>>
      ELSE <<SubSeq(s, 1, k - 1)>> \o Split(SubSeq(s, k + 1, Len(s)), sep)

\* the end of the leftmost match of /\[([^}]+)\]/ that starts at the '[' at
\* position i of s, 0 when there is none: [^}]+ is greedy, so the match ends
\* at the last ']' before the next '}'
BracketEnd(s, i) ==
  LET ends == {j \in (i + 2)..Len(s) :
                 /\ CharAt(s, j) = "]"
                 /\ \A k \in (i + 1)..(j - 1) : CharAt(s, k) # "}"}
  IN  IF CharAt(s, i) = "[" /\ ends # {}
        THEN CHOOSE j \in ends : \A k \in ends : k <= j
        ELSE 0

\* item.split(/\[([^}]+)\]/g): the pieces between the matches, with the
\* captured group of every match in between
RECURSIVE BracketSplit(_)
BracketSplit(s) ==
  LET starts == {i \in 1..Len(s) : BracketEnd(s, i) # 0}
  IN  IF starts = {} THEN <<s>>
      ELSE LET i == CHOOSE a \in starts : \A b \in starts : a <= b
               j == BracketEnd(s, i)
           IN  <<SubSeq(s, 1, i - 1), SubSeq(s, i + 1, j - 1)>>
                 \o BracketSplit(SubSeq(s, j + 1, Len(s)))

RECURSIVE NonEmpty(_)
NonEmpty(keys) ==
  IF Len(keys) = 0 THEN <<>>
  ELSE (IF Len(keys[1]) > 0 THEN <<keys[1]>> ELSE <<>>) \o NonEmpty(Tail(keys))

RECURSIVE PathOfItems(_)
PathOfItems(items) ==
  IF Len(items) = 0 THEN <<>>
  ELSE NonEmpty(BracketSplit(items[1])) \o PathOfItems(Tail(items))

\* the array of keys get builds from the key path string
PathKeys(pathString) == PathOfItems(Split(Trim(pathString), "."))

RECURSIVE Descend(_, _, _)
Descend(current, path, def) ==
  IF Len(path) = 0 THEN current
  ELSE IF current.t \in {"null", "undefined"} THEN JTypeError
  ELSE IF ~Truthy(Property(current, path[1])) THEN def
  ELSE Descend(Property(current, path[1]), Tail(path), def)

\* get(obj, pathString, def): the value at the key path
get(obj, pathString, def) ==
  IF TypeofObject(obj) THEN Descend(obj, PathKeys(pathString), def) ELSE obj

\* v.toString() of a value that is neither null nor undefined; String(v) as
\* string concatenation applies it
RECURSIVE toString(_)
RECURSIVE JoinValues(_)
JoinValues(a) ==
  IF Len(a) = 0 THEN ""
  ELSE (IF a[1].t \in {"null", "undefined"} THEN "" ELSE toString(a[1]))
         \o (IF Len(a) = 1 THEN "" ELSE "," \o JoinValues(Tail(a)))
toString(v) ==
  CASE v.t = "string" -> v.s
    [] v.t = "number" -> NumToString(v.n)
    [] v.t = "boolean" -> IF v.b THEN "true" ELSE "false"
    [] v.t = "array" -> JoinValues(v.a)
    [] v.t = "object" -> "[object Object]"
    [] v.t = "null" -> "null"
    [] OTHER -> "undefined"

(***************************************************************************)
(* Bounds and inputs                                                       *)
(***************************************************************************)

\* the number of submits a session accepts in the model, and the same for
\* a session that streams its responses
MaxSubmits == 2
MaxStreamSubmits == 1
\* the number of outputs one response stream delivers before the data
\* event that is the last one delivered
MaxOutputs == 1
\* the same, for the specification of the stream (SpecStream)
MaxStreamOutputs == 2

\* the history budget of onSubmit
HistoryLimit == 3900

RECURSIVE Repeat(_, _)
Repeat(s, n) ==
  IF n = 0 THEN ""
  ELSE IF n = 1 THEN s
  ELSE Repeat(s, n \div 2) \o Repeat(s, n - n \div 2)

\* a response that fills the history budget on its own
LongText == Repeat("x", HistoryLimit)

\* the base prompts, initial queries and base responses the caller passes
Prompts == {"Be brief"}
InitialQueries == {"", "why"}
Responses == {"", "Hi"}
\* the texts typed into the query field
Queries == {"", "a b", "391"}

\* the same, for the specification of the history (SpecHistory)
HistoryResponses == {"Hi", LongText}
HistoryQueries == {"", "a b", "390", "391"}

\* preferences.modelEndpoint, outputTiming, inputSchema
Endpoints == {"http://h", "Raycast AI", "none"}
Timings == {"sync", "async"}
Schemas == {"{\"q\":\"{prompt}\"}", "{\"b\":\"{basePrompt}\"}"}
outputKeyPath == "choices[0].text"
promptPrefix == ""
promptSuffix == ""

\* the input the chat view passes to useModel
input == ""

Choice(text) == JObj([choices |-> JArr(<<JObj([text |-> text])>>)])

\* the JSON documents the endpoint answers a sync request with
Docs == {Choice(JStr("Hello")), JObj([error |-> JStr("busy")])}

\* a line of a data event: whether it holds the "data:" marker, and what
\* JSON.parse makes of the rest (parsed = FALSE: it throws)
Line(doc) == [marker |-> TRUE, parsed |-> TRUE, doc |-> doc]
Unparsable == [marker |-> TRUE, parsed |-> FALSE, doc |-> JNull]
Unmarked == [marker |-> FALSE, parsed |-> TRUE, doc |-> Choice(JStr("He"))]

\* the data events of a response stream, each a sequence of lines
Chunks == {<<Line(Choice(JStr("Hello")))>>,
           <<Unmarked, Unparsable, Line(JObj([error |-> JStr("busy")]))>>}

\* the same, for the specification of the stream (SpecStream)
StreamChunks == {<<Line(Choice(JStr("He")))>>, <<Line(Choice(JStr("Hello")))>>,
                 <<Line(Choice(JStr("llo")))>>,
                 <<Line(Choice(JStr("He"))), Line(Choice(JStr("llo")))>>,
                 <<Unmarked, Unparsable, Line(JObj([error |-> JStr("busy")]))>>}

\* the states of the two checkboxes of the form at a submit: the defaults
FormChoices == {<<FALSE, TRUE>>}

\* response.statusText of a response that is not ok
StatusTexts == {"Bad Request"}

(***************************************************************************)
(* The pure parts of onSubmit and useModel                                 *)
(***************************************************************************)

\* the condition of the trimming loop:
\* values.queryField + convo.join("\n").length > 3900
TrimCondition(queryField, convo) ==
  StringGreaterThan(queryField \o NumToString(Len(Join(convo, "\n"))), HistoryLimit)

\* the trimming loop never ends: convo.shift() leaves an empty array empty,
\* so it ends iff the condition fails after some number of shifts
TrimDiverges(queryField, convo) ==
  \A k \in 0..Len(convo) : TrimCondition(queryField, SubSeq(convo, k + 1, Len(convo)))

\* convo after the trimming loop, when it ends
RECURSIVE TrimHistory(_, _)
TrimHistory(queryField, convo) ==
  IF TrimCondition(queryField, convo) /\ Len(convo) > 0
    THEN TrimHistory(queryField, Tail(convo))
    ELSE convo

\* the history onSubmit stores
NewConversation(conversation, values) ==
  TrimHistory(values.queryField,
              conversation \o <<values.responseField, values.queryField>>)

\* the keyed placeholders of useReplacements and their resolved values, in
\* insertion order
Replacements == << [key |-> "{{date}}", value |-> "May 1"] >>

RECURSIVE KeyedReplacements(_, _, _)
KeyedReplacements(subbedPrompt, query, keys) ==
  IF Len(keys) = 0 THEN subbedPrompt
  ELSE KeyedReplacements(
         IF Includes(query, keys[1].key)
           THEN ReplaceAll(subbedPrompt, keys[1].key, keys[1].value)
           ELSE subbedPrompt,
         query, Tail(keys))

\* runReplacements(): the keyed placeholders, then the five passes for the
\* script, URL and file placeholders, which leave a text without their
\* syntax as it is
runReplacements(query) == KeyedReplacements(query, query, Replacements)

\* the text onSubmit passes to setSentQuery
SentQuery(prompt, values, conversation, selectedFiles, contentPrompts, subbedPrompt) ==
  (IF Len(values.responseField) > 0
     THEN "You are an interactive chatbot, and I am giving you instructions. You will use this base prompt for context as you consider my next input. Here is the prompt: ###"
            \o prompt \o "###\n\n"
            \o (IF values.useFilesCheckbox /\ Len(selectedFiles) > 0
                  THEN " You will also consider the following details about selected files. Here are the file details: ###"
                         \o Join(contentPrompts, "\n") \o "###\n\n"
                  ELSE "")
            \o (IF values.useConversationCheckbox
                  THEN "You will also consider our conversation history. The history so far: ###"
                         \o Join(conversation, "\n")
                  ELSE "You will also consider your previous response. Your previous response was: ###"
                         \o values.responseField)
            \o "###\n\nMy next input is: ###"
     ELSE "")
  \o "\n                  " \o subbedPrompt \o "###"

\* text.replaceAll(/[\n\r\s]+/g, " ").replaceAll('"', '\\"')
Sanitize(text) == EscapeQuotes(CollapseSpace(text))

\* the request body of the sync branch
SyncBody(inputSchema, basePrompt, prompt) ==
  ReplaceFirst(
    ReplaceFirst(
      ReplaceFirst(inputSchema, "{prompt}",
                   promptPrefix \o Sanitize(prompt) \o promptSuffix),
      "{basePrompt}", promptPrefix \o Sanitize(basePrompt)),
    "{input}",
    IF Includes(inputSchema, "{prompt") /\ prompt = input
      THEN ""
      ELSE Sanitize(input) \o promptSuffix)

\* the request body of the async branch
AsyncBody(inputSchema, basePrompt, prompt) ==
  ReplaceFirst(
    ReplaceFirst(
      ReplaceFirst(inputSchema, "{prompt}",
                   promptPrefix \o Sanitize(prompt) \o promptSuffix),
      "{basePrompt}", promptPrefix \o Sanitize(basePrompt)),
    "{input}", Sanitize(input) \o promptSuffix)

\* the text of the stream after one more extracted output
\* a variant that appends every chunk, whether or not it contains the text
Accumulate_AlwaysAppend(text, output) == text \o toString(output)

Accumulate(text, output) ==
  IF Includes(toString(output), text) THEN toString(output)
  ELSE text \o toString(output)

\* text after one line of a data event; a line without the marker, a line
\* JSON.parse rejects and a TypeError of get leave it as it is
TextAfterLine(text, line) ==
  IF ~line.marker \/ ~line.parsed THEN text
  ELSE LET found == get(line.doc, outputKeyPath, JUndefined)
       IN  IF found = JTypeError THEN text
           ELSE Accumulate(text, IF Truthy(found) THEN found ELSE JStr(""))

\* the condition of the "end" handler
EndVerified(body, prompt) == Includes(body, Sanitize(prompt))

validRaycastAIReps == {"raycast ai", "raycastai", "raycast", "raycast-ai"}

LowerAt(s, i) ==
  LET k == IndexOf("ABCDEFGHIJKLMNOPQRSTUVWXYZ", CharAt(s, i))
  IN  IF k = 0 THEN CharAt(s, i) ELSE CharAt("abcdefghijklmnopqrstuvwxyz", k)

\* s.toLowerCase()
toLowerCase(s) == MapCat(LowerAt, s, 1, Len(s))

\* the branch useModel takes
Branch(modelEndpoint, canAccessAI) ==
  IF toLowerCase(modelEndpoint) \in validRaycastAIReps
    THEN IF canAccessAI THEN "ai" ELSE "unavailable"
    ELSE IF Includes(modelEndpoint, ":") THEN "url" ELSE "invalid"

(***************************************************************************)
(* State                                                                   *)
(***************************************************************************)

VARIABLES
  preferences,      \* getPreferenceValues(): modelEndpoint, outputTiming, inputSchema
  canAccessAI,      \* environment.canAccess(AI)
  prompt,           \* props.prompt, the base prompt
  initialQuery,     \* props.initialQuery, "" when absent
  response,         \* props.response
  isLoadingProp,    \* props.isLoading
  selectedFiles,    \* useFileContents(options).selectedFiles
  contentPrompts,   \* useFileContents(options).contentPrompts
  query, sentQuery, currentResponse, previousResponse,
  enableModel, queryError, conversation,          \* state of CommandChatView
  data, isLoading, error, dataTag,                \* state of useModel
  deps,             \* the dependency values of the last committed render
  requests,         \* the fetches issued so far, each with its closure
  pending,          \* the onSubmit calls suspended at an await
  phase,            \* "running", "hung" (a handler never returns), "crashed"
  submits,          \* the number of accepted submits
  call              \* a call of one of the pure functions, outside the session

config == <<preferences, canAccessAI, prompt, initialQuery, selectedFiles, contentPrompts>>
react == <<response, sentQuery, currentResponse, enableModel, data, isLoading,
           requests, deps, phase>>
vars == <<preferences, canAccessAI, prompt, initialQuery, response, isLoadingProp,
          selectedFiles, contentPrompts, query, sentQuery, currentResponse,
          previousResponse, enableModel, queryError, conversation, data,
          isLoading, error, dataTag, deps, requests, pending, phase,
          submits, call>>

branch == Branch(preferences.modelEndpoint, canAccessAI)

(***************************************************************************)
(* Render and effects                                                      *)
(***************************************************************************)

\* a variant that returns the isLoading state on every branch
HookLoading_ReturnsState(s) == s.isLoading

\* what useModel returns as isLoading and data
HookLoading(s) == IF branch = "url" THEN s.isLoading ELSE FALSE
HookData(s) == IF branch = "url" THEN s.data ELSE JStr("")

\* a variant that returns the isLoading state on every branch
\* the error of the capability check; the dash of the source text (U+2014)
\* is written as a hyphen
AIUnavailableError ==
  "Raycast AI is not available - Upgrade to Pro or use a different model endpoint."

\* what useModel returns as error
HookError ==
  CASE branch = "url" -> error
    [] branch = "unavailable" -> JStr(AIUnavailableError)
    [] branch = "invalid" -> JStr("Invalid Endpoint")
    [] OTHER -> JUndefined

\* the values of one render the effects depend on
Rendered(s) ==
  [response |-> s.response, execute |-> s.enableModel, prompt |-> s.sentQuery,
   data |-> HookData(s), loading |-> HookLoading(s), enableModel |-> s.enableModel]

\* the request the effect of useModel sends, with the values its callbacks
\* close over
NewRequest(r) ==
  [timing |-> preferences.outputTiming,
   body |-> IF preferences.outputTiming = "sync"
              THEN SyncBody(preferences.inputSchema, prompt, r.prompt)
              ELSE AsyncBody(preferences.inputSchema, prompt, r.prompt),
   prompt |-> r.prompt, execute |-> r.execute,
   stage |-> "sent", text |-> "", outputs |-> <<>>,
   cancelled |-> FALSE]

\* useEffect(() => setCurrentResponse(response), [response])
EffectResponse(s, r, d) ==
  IF r.response # d.response THEN [s EXCEPT !.currentResponse = r.response] ELSE s

\* the effect of useModel, [execute, basePrompt, input, prompt]
EffectFetch(s, r, d) ==
  IF branch = "url" /\ <<r.execute, r.prompt>> # <<d.execute, d.prompt>> /\ r.execute
    THEN [s EXCEPT !.isLoading = TRUE,
                   !.requests = IF preferences.outputTiming \in {"sync", "async"}
                                  THEN Append(@, NewRequest(r)) ELSE @]
    ELSE s

\* v > 0 for any value v: the relational operator converts v to a number
\* (true is 1, null is 0, undefined is NaN, a string is read as a numeric
\* literal, an array is converted through its join, an object through
\* "[object Object]"), and a comparison with NaN is false
RECURSIVE GreaterThanZero(_)
GreaterThanZero(v) ==
  CASE v.t = "number" -> v.n > 0
    [] v.t = "boolean" -> v.b
    [] v.t = "string" -> StringGreaterThan(v.s, 0)
    [] v.t = "array" ->
         /\ Len(v.a) = 1
         /\ v.a[1].t \in {"number", "string", "array"}
         /\ GreaterThanZero(v.a[1])
    [] OTHER -> FALSE

\* useEffect(() => { if (data.length > 0) setCurrentResponse(data) }, [data])
\* data is whatever get returned. data.length throws on undefined and null.
\* When the test passes on a value that is not a string, the value becomes
\* currentResponse and the render that follows throws at
\* currentResponse.trim(). A parsed array or object is a new reference in
\* every response, so the effect runs again on an equal one; it then does
\* what it did before (nothing, as the session has not crashed).
EffectData(s, r, d) ==
  IF r.data = d.data THEN s
  ELSE IF r.data.t \in {"undefined", "null"} THEN [s EXCEPT !.phase = "crashed"]
  ELSE IF GreaterThanZero(Property(r.data, "length"))
    THEN IF r.data.t = "string"
           THEN [s EXCEPT !.currentResponse = r.data.s]
           ELSE [s EXCEPT !.phase = "crashed"]
    ELSE s

\* useEffect(() => { if (!loading && enableModel == true) setEnableModel(false) },
\*           [enableModel, loading])
EffectEnable(s, r, d) ==
  IF <<r.enableModel, r.loading>> # <<d.enableModel, d.loading>>
       /\ ~r.loading /\ r.enableModel
    THEN [s EXCEPT !.enableModel = FALSE]
    ELSE s

\* the effects of one commit, in the order of their declaration
Effects(s, r, d) ==
  EffectEnable(EffectData(EffectFetch(EffectResponse(s, r, d), r, d), r, d), r, d)

\* one commit: the effects run on the values of the render, and record the
\* values they depended on
CommitOnce(s) ==
  LET r == Rendered(s)
  IN  [Effects(s, r, s.deps) EXCEPT !.deps = r]

\* render, run the effects, and render again until no state changes (the
\* singleton sets bind s and t to values, so each is evaluated once)
RECURSIVE Commit(_)
Commit(s) ==
  CHOOSE u \in {IF t.phase # "running" \/ [t EXCEPT !.deps = x.deps] = x
                  THEN t ELSE Commit(t) :
                <<x, t>> \in {<<y, CommitOnce(y)>> : y \in {s}}} : TRUE

Cur == [response |-> response, sentQuery |-> sentQuery,
        currentResponse |-> currentResponse, enableModel |-> enableModel,
        data |-> data, isLoading |-> isLoading, requests |-> requests,
        deps |-> deps, phase |-> phase]

Apply(c) ==
  \E s \in {c} :
  /\ response' = s.response
  /\ sentQuery' = s.sentQuery
  /\ currentResponse' = s.currentResponse
  /\ enableModel' = s.enableModel
  /\ data' = s.data
  /\ isLoading' = s.isLoading
  /\ requests' = s.requests
  /\ deps' = s.deps
  /\ phase' = s.phase

\* isLoading || loading: the Cancel action is shown instead of Submit Query
Busy == isLoadingProp \/ HookLoading(Cur)

(***************************************************************************)
(* Construction: the first render and the mount effects                    *)
(***************************************************************************)

\* the preferences of a session that talks to an HTTP endpoint (the sync
\* branch never reads its own request body, one schema is enough there)
UrlPreferences ==
  {p \in [modelEndpoint : {e \in Endpoints : Includes(e, ":")},
          outputTiming : Timings, inputSchema : Schemas] :
     p.outputTiming = "sync" => p.inputSchema = "{\"q\":\"{prompt}\"}"}

\* the preferences of a session whose endpoint is the native AI or invalid
LocalPreferences ==
  [modelEndpoint : {e \in Endpoints : ~Includes(e, ":")},
   outputTiming : {"sync"}, inputSchema : {"{\"q\":\"{prompt}\"}"}]

PreferenceSets == UrlPreferences \cup LocalPreferences

StreamPreferences == {p \in UrlPreferences : p.outputTiming = "async"}

HistoryPreferences == {p \in LocalPreferences : p.modelEndpoint = "none"}

FileSets == {<< <<"/a.txt">>, <<"a.txt: 12 bytes">> >>}

\* no function is called on its own
NoCall == [fn |-> "none"]

\* the state the useState calls create
FirstRender(rsp) ==
  [response |-> rsp, sentQuery |-> "", currentResponse |-> rsp,
   enableModel |-> FALSE, data |-> JStr(""), isLoading |-> TRUE,
   requests |-> <<>>, phase |-> "running",
   deps |-> [response |-> rsp, execute |-> FALSE, prompt |-> "",
             data |-> JStr(""), loading |-> TRUE, enableModel |-> FALSE]]

\* the mount effects: the initial query is stored as the sent query and the
\* model is enabled; the [response] effect then shows the base response
Mounted(rsp, iq) ==
  LET s == FirstRender(rsp)
      r == Rendered(s)
  IN  IF Len(iq) > 0
        THEN [s EXCEPT !.sentQuery = iq, !.enableModel = TRUE, !.deps = r]
        ELSE [s EXCEPT !.deps = r]

\* the session after construction and mount
InitSession(preferenceSet, initialQuerySet, responseSet, loadingSet) ==
  /\ preferences \in preferenceSet
  /\ canAccessAI = FALSE
  /\ prompt \in Prompts
  /\ initialQuery \in initialQuerySet
  /\ isLoadingProp \in loadingSet
  /\ \E f \in FileSets : selectedFiles = f[1] /\ contentPrompts = f[2]
  /\ query = initialQuery
  /\ queryError = JUndefined
  /\ error = JUndefined
  /\ dataTag = ""
  /\ \E rsp \in responseSet :
       /\ previousResponse = IF Len(initialQuery) > 0 THEN rsp ELSE ""
       /\ conversation = IF Len(initialQuery) > 0 THEN <<prompt, rsp>> ELSE <<prompt>>
       /\ \E s \in {Commit(Mounted(rsp, initialQuery))} :
              /\ response = s.response
              /\ sentQuery = s.sentQuery
              /\ currentResponse = s.currentResponse
              /\ enableModel = s.enableModel
              /\ data = s.data
              /\ isLoading = s.isLoading
              /\ requests = s.requests
              /\ deps = s.deps
              /\ phase = s.phase
  /\ pending = <<>>
  /\ submits = 0

InitWith(preferenceSet, initialQuerySet, responseSet, loadingSet) ==
  /\ call = NoCall
  /\ InitSession(preferenceSet, initialQuerySet, responseSet, loadingSet)

Init == InitWith(PreferenceSets, InitialQueries, Responses, {FALSE})

(***************************************************************************)
(* User actions                                                            *)
(***************************************************************************)

\* the values the form hands to onSubmit
FormValues(useFiles, useConversation) ==
  [queryField |-> query, responseField |-> Trim(currentResponse),
   useFilesCheckbox |-> useFiles, useConversationCheckbox |-> useConversation]

\* Form.TextArea queryField onChange
onChange(value) ==
  /\ phase = "running"
  /\ value # query
  /\ query' = value
  /\ UNCHANGED <<call, config, react, isLoadingProp, previousResponse, queryError,
                 conversation, error, dataTag, pending, submits>>

\* onSubmit with an empty query field
\* a variant without the early return: the previous response is overwritten
\* before the query is looked at
onSubmitEmpty_FallsThrough ==
  /\ phase = "running"
  /\ ~Busy
  /\ Len(query) = 0
  /\ queryError' = JStr("Query cannot be empty")
  /\ previousResponse' = Trim(currentResponse)
  /\ UNCHANGED <<call, config, react, isLoadingProp, query,
                 conversation, error, dataTag, pending, submits>>

onSubmitEmpty ==
  /\ phase = "running"
  /\ ~Busy
  /\ Len(query) = 0
  /\ queryError' = JStr("Query cannot be empty")
  /\ UNCHANGED <<call, config, react, isLoadingProp, query, previousResponse,
                 conversation, error, dataTag, pending, submits>>

\* onSubmit whose trimming loop never ends: the handler never returns and
\* nothing it queued is ever rendered
onSubmitDiverges ==
  /\ phase = "running"
  /\ ~Busy
  /\ Len(query) > 0
  /\ LET values == FormValues(FALSE, TRUE)
     IN  TrimDiverges(values.queryField,
                      conversation \o <<values.responseField, values.queryField>>)
  /\ phase' = "hung"
  /\ UNCHANGED <<call, config, response, sentQuery, currentResponse, enableModel, data,
                 isLoading, requests, deps, isLoadingProp, query, previousResponse,
                 queryError, conversation, error, dataTag, pending, submits>>

SubmitBound ==
  IF branch = "url" /\ preferences.outputTiming = "async"
    THEN MaxStreamSubmits ELSE MaxSubmits

\* onSubmit up to its first await: the previous response and the history
\* are stored, the response field is cleared
onSubmit(useFiles, useConversation) ==
  /\ phase = "running"
  /\ ~Busy
  /\ submits < SubmitBound
  /\ Len(query) > 0
  /\ LET values == FormValues(useFiles, useConversation)
     IN  /\ ~TrimDiverges(values.queryField,
                          conversation \o <<values.responseField, values.queryField>>)
         /\ queryError' = JUndefined
         /\ previousResponse' = values.responseField
         /\ conversation' = NewConversation(conversation, values)
         /\ pending' = Append(pending,
                              [values |-> values, query |-> query,
                               conversation |-> conversation])
         /\ Apply(Commit([Cur EXCEPT !.currentResponse = ""]))
  /\ submits' = submits + 1
  /\ UNCHANGED <<call, config, isLoadingProp, query, error, dataTag>>

Remove(seq, i) == SubSeq(seq, 1, i - 1) \o SubSeq(seq, i + 1, Len(seq))

\* onSubmit after its awaits: the placeholders are resolved, the model is
\* enabled, the sent query is set, and reattempt (a no-op outside the
\* native-AI branch) is called
onSubmitResume(i) ==
  /\ phase = "running"
  /\ i \in 1..Len(pending)
  /\ LET p == pending[i]
         subbedPrompt == runReplacements(p.query)
     IN  Apply(Commit([Cur EXCEPT
           !.enableModel = TRUE,
           !.sentQuery = SentQuery(prompt, p.values, p.conversation,
                                   selectedFiles, contentPrompts, subbedPrompt)]))
  /\ pending' = Remove(pending, i)
  /\ UNCHANGED <<call, config, isLoadingProp, query, previousResponse, queryError,
                 conversation, error, dataTag,
                 submits>>

\* Cancel with a previous response: setEnableModel(false)
\* a variant that also forgets the conversation
onCancel_ResetsHistory ==
  /\ phase = "running"
  /\ Busy
  /\ Len(previousResponse) > 0
  /\ LET marked == [k \in 1..Len(requests) |->
                      IF requests[k].stage # "closed"
                        THEN [requests[k] EXCEPT !.cancelled = TRUE]
                        ELSE requests[k]]
     IN  Apply(Commit([Cur EXCEPT !.enableModel = FALSE, !.requests = marked]))
  /\ conversation' = <<prompt>>
  /\ UNCHANGED <<call, config, isLoadingProp, query, previousResponse, queryError,
                 error, dataTag, pending, submits>>

onCancel ==
  /\ phase = "running"
  /\ Busy
  /\ Len(previousResponse) > 0
  /\ LET marked == [k \in 1..Len(requests) |->
                      IF requests[k].stage # "closed"
                        THEN [requests[k] EXCEPT !.cancelled = TRUE]
                        ELSE requests[k]]
     IN  Apply(Commit([Cur EXCEPT !.enableModel = FALSE, !.requests = marked]))
  /\ UNCHANGED <<call, config, isLoadingProp, query, previousResponse, queryError,
                 conversation, error, dataTag, pending, submits>>

\* Cancel without a previous response: props.cancel()
onCancelCaller ==
  /\ phase = "running"
  /\ Busy
  /\ Len(previousResponse) = 0
  /\ UNCHANGED <<call, config, react, isLoadingProp, query, previousResponse, queryError,
                 conversation, error, dataTag, pending, submits>>

\* Regenerate with a previous response: reattempt(), the revalidate of
\* useModel, which is () => null
onRegenerate ==
  /\ phase = "running"
  /\ Len(previousResponse) > 0
  /\ UNCHANGED <<call, config, react, isLoadingProp, query, previousResponse, queryError,
                 conversation, error, dataTag, pending, submits>>

\* Regenerate without a previous response: props.revalidate(), the caller
\* runs the base request again
onRegenerateCaller ==
  /\ phase = "running"
  /\ Len(previousResponse) = 0
  /\ isLoadingProp' = TRUE
  /\ UNCHANGED <<call, config, react, query, previousResponse, queryError,
                 conversation, error, dataTag, pending, submits>>

\* the caller's base request delivers its response
CallerResponds(rsp) ==
  /\ phase = "running"
  /\ isLoadingProp
  /\ isLoadingProp' = FALSE
  /\ Apply(Commit([Cur EXCEPT !.response = rsp]))
  /\ UNCHANGED <<call, config, query, previousResponse, queryError, conversation,
                 error, dataTag, pending, submits>>

(***************************************************************************)
(* Network callbacks of useModel                                           *)
(***************************************************************************)

Network(i) ==
  /\ phase = "running"
  /\ i \in 1..Len(requests)
  /\ UNCHANGED <<call, config, isLoadingProp, query, previousResponse, queryError,
                 conversation, pending, submits>>

\* sync branch, the response is not ok: setError(response.statusText)
SyncNotOk(i, statusText) ==
  /\ Network(i)
  /\ requests[i].timing = "sync" /\ requests[i].stage = "sent"
  /\ error' = JStr(statusText)
  /\ Apply(Commit([Cur EXCEPT !.requests[i].stage = "closed"]))
  /\ UNCHANGED dataTag

\* sync branch, response.json() throws
SyncUnparsable(i) ==
  /\ Network(i)
  /\ requests[i].timing = "sync" /\ requests[i].stage = "sent"
  /\ error' = JStr("Couldn't parse model output")
  /\ Apply(Commit([Cur EXCEPT !.requests[i].stage = "closed"]))
  /\ UNCHANGED dataTag

\* sync branch, the response is ok and holds a JSON document
SyncOk(i, doc) ==
  /\ Network(i)
  /\ requests[i].timing = "sync" /\ requests[i].stage = "sent"
  /\ LET output == get(doc, outputKeyPath, JUndefined)
     IN  IF output = JTypeError
           THEN /\ error' = JStr("Couldn't parse model output")
                /\ Apply(Commit([Cur EXCEPT !.requests[i].stage = "closed"]))
           ELSE /\ error' = error
                /\ Apply(Commit([Cur EXCEPT !.requests[i].stage = "closed",
                                            !.data = output,
                                            !.isLoading = FALSE]))
  /\ UNCHANGED dataTag

\* async branch, the response is ok and has a body: the handlers of its
\* stream are registered
AsyncOk(i) ==
  /\ Network(i)
  /\ requests[i].timing = "async" /\ requests[i].stage = "sent"
  /\ Apply(Commit([Cur EXCEPT !.requests[i].stage = "open"]))
  /\ UNCHANGED <<error, dataTag>>

\* async branch, the response is not ok: setError(response.statusText)
AsyncNotOk(i, statusText) ==
  /\ Network(i)
  /\ requests[i].timing = "async" /\ requests[i].stage = "sent"
  /\ error' = JStr(statusText)
  /\ Apply(Commit([Cur EXCEPT !.requests[i].stage = "closed"]))
  /\ UNCHANGED dataTag

\* the lines of a data event that reach setData
Accepted(line) ==
  /\ line.marker /\ line.parsed
  /\ get(line.doc, outputKeyPath, JUndefined) # JTypeError

RECURSIVE TextAfterLines(_, _)
TextAfterLines(text, lines) ==
  IF Len(lines) = 0 THEN text
  ELSE TextAfterLines(TextAfterLine(text, lines[1]), Tail(lines))

\* the extracted outputs of the accepted lines, as texts
RECURSIVE Outputs(_)
Outputs(lines) ==
  IF Len(lines) = 0 THEN <<>>
  ELSE (IF Accepted(lines[1])
          THEN LET found == get(lines[1].doc, outputKeyPath, JUndefined)
               IN  <<toString(IF Truthy(found) THEN found ELSE JStr(""))>>
          ELSE <<>>)
       \o Outputs(Tail(lines))

\* the "end" handler: the loading flag is cleared when the request body
\* holds the prompt
EndHandler(s, i) ==
  [s EXCEPT !.requests[i].stage = "closed",
            !.isLoading = IF EndVerified(s.requests[i].body, s.requests[i].prompt)
                            THEN FALSE ELSE @]

\* the "data" handler of the response stream
AsyncData(i, chunk) ==
  /\ Network(i)
  /\ requests[i].timing = "async" /\ requests[i].stage = "open"
  /\ dataTag' = requests[i].body
  /\ LET req == requests[i]
         text == TextAfterLines(req.text, chunk)
     IN  IF ~req.execute /\ Len(req.text) > 0
           THEN Apply(Commit(EndHandler(Cur, i)))
           ELSE Apply(Commit([Cur EXCEPT
                  !.requests[i].text = text,
                  !.requests[i].outputs = @ \o Outputs(chunk),
                  !.data = IF \E k \in 1..Len(chunk) : Accepted(chunk[k])
                             THEN JStr(text) ELSE @]))
  /\ UNCHANGED error

\* the stream of the response ends
AsyncEnd(i) ==
  /\ Network(i)
  /\ requests[i].timing = "async" /\ requests[i].stage = "open"
  /\ Apply(Commit(EndHandler(Cur, i)))
  /\ UNCHANGED <<error, dataTag>>

(***************************************************************************)
(* Specification                                                           *)
(***************************************************************************)

Next ==
  \/ \E value \in Queries : onChange(value)
  \/ onSubmitEmpty
  \/ onSubmitDiverges
  \/ \E f \in FormChoices : onSubmit(f[1], f[2])
  \/ \E i \in 1..Len(pending) : onSubmitResume(i)
  \/ onCancel
  \/ onCancelCaller
  \/ onRegenerate
  \/ onRegenerateCaller
  \/ \E rsp \in Responses : CallerResponds(rsp)
  \/ \E i \in 1..Len(requests), st \in StatusTexts : SyncNotOk(i, st)
  \/ \E i \in 1..Len(requests) : SyncUnparsable(i)
  \/ \E i \in 1..Len(requests), doc \in Docs : SyncOk(i, doc)
  \/ \E i \in 1..Len(requests) : AsyncOk(i)
  \/ \E i \in 1..Len(requests), st \in StatusTexts : AsyncNotOk(i, st)
  \/ \E i \in 1..Len(requests), chunk \in Chunks :
       Len(requests[i].outputs) < MaxOutputs /\ AsyncData(i, chunk)
  \/ \E i \in 1..Len(requests) : AsyncEnd(i)

\* the chat session with every endpoint
Spec == Init /\ [][Next]_vars

\* the session without a reachable endpoint: the form, the history and the
\* caller, with long responses and numeric queries
InitHistory == InitWith(HistoryPreferences, InitialQueries, HistoryResponses, BOOLEAN)

NextHistory ==
  \/ \E value \in HistoryQueries : onChange(value)
  \/ onSubmitEmpty
  \/ onSubmitDiverges
  \/ \E f \in FormChoices : onSubmit(f[1], f[2])
  \/ \E i \in 1..Len(pending) : onSubmitResume(i)
  \/ onCancel
  \/ onCancelCaller
  \/ onRegenerate
  \/ onRegenerateCaller
  \/ \E rsp \in HistoryResponses : CallerResponds(rsp)

SpecHistory == InitHistory /\ [][NextHistory]_vars

\* the response stream of the initial query of a streaming session, with
\* snapshot and delta chunks, and the Cancel action
InitStream == InitWith(StreamPreferences, {"why"}, Responses, {FALSE})

NextStream ==
  \/ \E i \in 1..Len(requests) : AsyncOk(i)
  \/ \E i \in 1..Len(requests), st \in StatusTexts : AsyncNotOk(i, st)
  \/ \E i \in 1..Len(requests), chunk \in StreamChunks :
       Len(requests[i].outputs) < MaxStreamOutputs /\ AsyncData(i, chunk)
  \/ \E i \in 1..Len(requests) : AsyncEnd(i)
  \/ onCancel
  \/ onCancelCaller

SpecStream == InitStream /\ [][NextStream]_vars

(***************************************************************************)
(* Calls of the pure functions, each on inputs of its own                  *)
(***************************************************************************)

\* the variables of the session, which a call on its own leaves alone
session == <<config, react, isLoadingProp, query, previousResponse, queryError,
             conversation, error, dataTag, pending, submits>>

\* the parsed outputs get is called with
GetValues ==
  {Choice(JStr("ok")), Choice(JStr("")), Choice(JNum(0)), Choice(JBool(FALSE)),
   Choice(JNull), JObj([choices |-> JArr(<<>>)]), JObj([error |-> JStr("busy")]),
   JArr(<<JArr(<<JStr("x"), JStr("y")>>)>>),
   JNull, JStr("abc"), JNum(7), JBool(TRUE)}

GetPaths == {"choices[0].text", "choices[1].text", "choices[0].missing",
             "error", "[0][1]", ""}

GetDefaults == {JUndefined, JStr("none")}

GetCalls ==
  {[fn |-> "get", obj |-> o, pathString |-> p, def |-> d,
    returned |-> FALSE, result |-> JUndefined] :
     o \in GetValues, p \in GetPaths, d \in GetDefaults}

\* get(obj, pathString, def) returns or throws
getReturns ==
  /\ call.fn = "get"
  /\ ~call.returned
  /\ call' = [call EXCEPT !.returned = TRUE,
                          !.result = get(call.obj, call.pathString, call.def)]
  /\ UNCHANGED session

\* the request templates, prompts and base prompts the bodies are built from
BodySchemas ==
  {"{\"q\":\"{prompt}\"}",
   "{\"q\":\"{prompt}\",\"b\":\"{basePrompt}\",\"i\":\"{input}\"}",
   "{\"b\":\"{basePrompt}\"}"}

BodyPrompts == {"hi\nthere", "say \"x\"", "a \r\n  b", "{basePrompt}", "why"}

BodyBasePrompts == {"Be brief", "{input}"}

BodyCalls ==
  {[fn |-> "body", timing |-> t, inputSchema |-> schema, basePrompt |-> b,
    prompt |-> q, returned |-> FALSE, result |-> ""] :
     t \in Timings, schema \in BodySchemas, b \in BodyBasePrompts, q \in BodyPrompts}

\* the effect of useModel builds the body of its request
bodyReturns ==
  /\ call.fn = "body"
  /\ ~call.returned
  /\ call' = [call EXCEPT
                !.returned = TRUE,
                !.result = IF call.timing = "sync"
                             THEN SyncBody(call.inputSchema, call.basePrompt, call.prompt)
                             ELSE AsyncBody(call.inputSchema, call.basePrompt, call.prompt)]
  /\ UNCHANGED session

\* replacement mappings as useReplacements hands them over, in insertion
\* order, with the values their functions resolve to
ReplacementMaps ==
  {<< [key |-> "{{a}}", value |-> "1"], [key |-> "{{b}}", value |-> "2"] >>,
   << [key |-> "{{a}}", value |-> "see {{b}}"], [key |-> "{{b}}", value |-> "2"] >>,
   << [key |-> "{{b}}", value |-> "2"], [key |-> "{{a}}", value |-> "see {{b}}"] >>}

ReplacementQueries == {"{{a}} and {{b}}", "{{a}}", "{{b}}{{a}}", "{{a}}{{a}}", "plain"}

ReplacementCalls ==
  {[fn |-> "runReplacements", query |-> q, replacements |-> m,
    returned |-> FALSE, result |-> ""] :
     q \in ReplacementQueries, m \in ReplacementMaps}

\* the loop over the keys in runReplacements
runReplacementsReturns ==
  /\ call.fn = "runReplacements"
  /\ ~call.returned
  /\ call' = [call EXCEPT
                !.returned = TRUE,
                !.result = KeyedReplacements(call.query, call.query, call.replacements)]
  /\ UNCHANGED session

\* one call of get, of the body construction or of the keyed replacements
InitCalls ==
  /\ InitSession(HistoryPreferences, {""}, {""}, {FALSE})
  /\ \/ call \in GetCalls
     \/ call \in BodyCalls
     \/ call \in ReplacementCalls

NextCalls ==
  \/ getReturns
  \/ bodyReturns
  \/ runReplacementsReturns

SpecCalls == InitCalls /\ [][NextCalls]_vars

(***************************************************************************)
(* Properties                                                              *)
(***************************************************************************)

\* a callback of request i ran in this step: its response arrived, a line
\* of a data event reached setData, or its stream ended
Delivered(i) ==
  \/ requests'[i].stage # requests[i].stage
  \/ requests'[i].outputs # requests[i].outputs

\* request i is the invocation the session waits for: the last one started,
\* and Cancel was not pressed since
Active(i) == i = Len(requests) /\ ~requests[i].cancelled

\* Cancel was pressed in this step while request i was in flight
Cancelled(i) == ~requests[i].cancelled /\ requests'[i].cancelled

\* C1: right after the trimming step of every accepted submit, the length
\* of the query plus the length of the stored history joined with newlines
\* is at most 3900.
C1_HistoryWithinLimit ==
  [][submits' # submits =>
       Len(query) + Len(Join(conversation', "\n")) <= HistoryLimit]_vars

\* C2: a callback of a request that is not the active invocation (a later
\* request was started, or Cancel was pressed) changes neither the response
\* data nor the loading flag.
C2_StaleUpdateDiscarded ==
  [][\A i \in 1..Len(requests) :
       (Delivered(i) /\ ~Active(i)) => (data' = data /\ isLoading' = isLoading)]_vars

\* C3: once Cancel was pressed for a streaming request, no further output of
\* its stream reaches setData.
C3_NoStreamingAfterCancel ==
  [][\A i \in 1..Len(requests) :
       requests[i].cancelled =>
         (requests'[i].outputs = requests[i].outputs /\ data' = data)]_vars

\* the requests the session has to issue: one for the initial query, one
\* for every submit that ran to its end
RequestsDue == (IF Len(initialQuery) > 0 THEN 1 ELSE 0) + submits - Len(pending)

\* the requests in flight: issued and not finished. The code aborts no
\* request and tests no answer against a later request, so a request leaves
\* the flight only when its response arrives or its stream ends
InFlight ==
  {i \in 1..Len(requests) : requests[i].stage # "closed"}

\* C4: at most one request is in flight (issued and neither finished nor
\* superseded), and the session issues at most one request for the initial
\* query and one per submit: Cancel, Regenerate and the callbacks issue none.
C4_OneRequestPerInvocation ==
  /\ Cardinality(InFlight) <= 1
  /\ branch = "url" => Len(requests) <= RequestsDue
  /\ branch # "url" => Len(requests) = 0

\* C5: Cancel with a previous response, pressed while a request is in
\* flight, clears the loading flag at once.
C5_CancelReturnsToIdle ==
  [][(\E i \in 1..Len(requests) : Cancelled(i)) => ~isLoading']_vars

\* C6: Cancel leaves the history, the previous response and the sent query
\* as they were.
C6_CancelKeepsCommittedState ==
  [][((\E i \in 1..Len(requests) : Cancelled(i)) \/ onCancel \/ onCancelCaller) =>
       /\ conversation' = conversation
       /\ previousResponse' = previousResponse
       /\ sentQuery' = sentQuery]_vars

\* C6 witness: Cancel was pressed while a request was in flight.
C6_Witness == \E i \in 1..Len(requests) : requests[i].cancelled

EmptyQueryError == JStr("Query cannot be empty")

\* C7: the step that sets the error "Query cannot be empty" changes nothing
\* else of the session and issues no request, and no submit with an empty
\* query is accepted.
C7_EmptyQueryRejected ==
  [][/\ (queryError' = EmptyQueryError /\ queryError # EmptyQueryError) =>
          /\ Len(query) = 0
          /\ conversation' = conversation
          /\ previousResponse' = previousResponse
          /\ currentResponse' = currentResponse
          /\ sentQuery' = sentQuery
          /\ enableModel' = enableModel
          /\ requests' = requests
          /\ pending' = pending
     /\ (submits' # submits \/ Len(pending') > Len(pending)) => Len(query) > 0]_vars

\* C7 witness: a submit with an empty query was rejected.
C7_Witness == queryError = EmptyQueryError /\ Len(query) = 0

\* C8: when the stream of a request ends, the loading flag is false.
C8_StreamEndCompletes ==
  [][\A i \in 1..Len(requests) :
       (requests[i].stage = "open" /\ requests'[i].stage = "closed") => ~isLoading']_vars

\* C9: when a request is answered with a status that is not ok, the error
\* is the status text and the loading flag is false.
C9_FailureLeavesAwaiting ==
  [][\A i \in 1..Len(requests) :
       (/\ requests[i].stage = "sent" /\ requests'[i].stage = "closed"
        /\ error' # error
        /\ error' \in {JStr(st) : st \in StatusTexts}) => ~isLoading']_vars

\* the accumulation as the claim states it: a chunk that contains the text
\* so far replaces it, any other chunk is appended
RECURSIVE Accumulated(_)
Accumulated(chunks) ==
  IF Len(chunks) = 0 THEN ""
  ELSE LET before == Accumulated(SubSeq(chunks, 1, Len(chunks) - 1))
           chunk == chunks[Len(chunks)]
       IN  IF Includes(chunk, before) THEN chunk ELSE before \o chunk

RECURSIVE Concatenation(_)
Concatenation(chunks) ==
  IF Len(chunks) = 0 THEN "" ELSE chunks[1] \o Concatenation(Tail(chunks))

\* every chunk contains the text accumulated before it
GrowingSnapshots(chunks) ==
  \A k \in 1..Len(chunks) : Includes(chunks[k], Accumulated(SubSeq(chunks, 1, k - 1)))

\* no chunk but the first contains the text accumulated before it
Deltas(chunks) ==
  \A k \in 2..Len(chunks) : ~Includes(chunks[k], Accumulated(SubSeq(chunks, 1, k - 1)))

\* C10: the text of a stream is its chunks accumulated, each replacing the
\* text when it contains it and appended otherwise; growing snapshots end
\* with the last snapshot (He, Hello gives Hello), deltas with their
\* concatenation (He, llo gives Hello).
C10_StreamingAccumulation ==
  \A i \in 1..Len(requests) :
    LET chunks == requests[i].outputs
        text == requests[i].text
    IN  /\ text = Accumulated(chunks)
        /\ (Len(chunks) > 0 /\ GrowingSnapshots(chunks)) => text = chunks[Len(chunks)]
        /\ Deltas(chunks) => text = Concatenation(chunks)
        /\ chunks = <<"He", "Hello">> => text = "Hello"
        /\ chunks = <<"He", "llo">> => text = "Hello"

\* C10 witness: a stream delivered the snapshots He, Hello or the deltas
\* He, llo, and its text is Hello.
C10_Witness ==
  \E i \in 1..Len(requests) :
    /\ requests[i].outputs \in {<<"He", "Hello">>, <<"He", "llo">>}
    /\ requests[i].text = "Hello"

\* the tokens of a dotted and bracketed key path: choices[0].text has the
\* tokens choices, 0 and text
RECURSIVE Tokens(_)
Tokens(s) ==
  LET seps == {i \in 1..Len(s) : CharAt(s, i) \in {".", "[", "]"}}
  IN  IF Len(s) = 0 THEN <<>>
      ELSE IF seps = {} THEN <<s>>
      ELSE LET i == CHOOSE a \in seps : \A b \in seps : a <= b
           IN  (IF i > 1 THEN <<SubSeq(s, 1, i - 1)>> ELSE <<>>)
                 \o Tokens(SubSeq(s, i + 1, Len(s)))

\* the value has the token as a key or as an index
HasToken(v, token) ==
  \/ v.t = "object" /\ token \in DOMAIN v.o
  \/ /\ v.t = "array"
     /\ IsDigits(token) /\ StripZeros(token) = token /\ Len(token) < 9
     /\ DecVal(token) < Len(v.a)

Child(v, token) == IF v.t = "object" THEN v.o[token] ELSE v.a[DecVal(token) + 1]

\* every token is present along the traversal
RECURSIVE Present(_, _)
Present(v, tokens) ==
  \/ Len(tokens) = 0
  \/ HasToken(v, tokens[1]) /\ Present(Child(v, tokens[1]), Tail(tokens))

\* the value found after consuming all tokens
RECURSIVE ValueAt(_, _)
ValueAt(v, tokens) ==
  IF Len(tokens) = 0 THEN v ELSE ValueAt(Child(v, tokens[1]), Tail(tokens))

\* C11: get never raises, and when a token of the path is missing from the
\* value being traversed (also when that value is not an object or array)
\* the result is the default.
C11_ExtractNeverRaises ==
  (call.fn = "get" /\ call.returned) =>
    /\ call.result # JTypeError
    /\ ~Present(call.obj, Tokens(call.pathString)) => call.result = call.def

\* C12: when every token of the path is present, get returns the value
\* found after consuming all tokens, whatever it is.
C12_ExtractReturnsLeaf ==
  (call.fn = "get" /\ call.returned /\ Present(call.obj, Tokens(call.pathString))) =>
    call.result = ValueAt(call.obj, Tokens(call.pathString))

\* C13: with a native-AI alias as endpoint and the AI capability
\* unavailable, the hook returns the capability error, no data and loading
\* false, and no request is issued, whatever execute and the prompt are.
C13_CapabilityUnavailable ==
  branch = "unavailable" =>
    /\ ~HookLoading(Cur)
    /\ HookData(Cur) = JStr("")
    /\ HookError = JStr(AIUnavailableError)
    /\ requests = <<>>

\* C13 witness: on the unavailable branch a submit ran to its end, so the
\* hook was rendered with execute true and a non-empty prompt.
C13_Witness ==
  /\ branch = "unavailable"
  /\ submits > 0
  /\ pending = <<>>
  /\ Len(sentQuery) > 0

\* C14: whenever Regenerate can be pressed with a previous response on an
\* idle session with a URL endpoint, pressing it issues a new request with
\* the last sent query and leaves the conversation as it is.
C14_RegenerateReplays ==
  (branch = "url" /\ ~Busy /\ ENABLED onRegenerate) =>
    ENABLED (/\ onRegenerate
             /\ Len(requests') = Len(requests) + 1
             /\ requests'[Len(requests')].prompt = sentQuery
             /\ conversation' = conversation)

\* C15: a session created without an initial query, before its first submit
\* and while the caller is not loading, is idle: the history is the base
\* prompt alone, no request was issued, the hook's loading flag is false and
\* Submit is offered.
C15_StartsIdle ==
  (Len(initialQuery) = 0 /\ submits = 0 /\ ~isLoadingProp) =>
    /\ conversation = <<prompt>>
    /\ requests = <<>>
    /\ ~HookLoading(Cur)
    /\ ~Busy

\* C16: submits do not interleave: at most one onSubmit call is between its
\* history update and the start of its invocation, and the query of every
\* such call is in the history.
C16_SubmitsDoNotInterleave ==
  /\ Len(pending) <= 1
  /\ \A i \in 1..Len(pending) :
       \E k \in 1..Len(conversation) : conversation[k] = pending[i].query

\* the text s contains a and, after it, b
FollowedBy(s, a, b) ==
  \E i \in 0..(Len(s) - Len(a)) :
    /\ SubSeq(s, i + 1, i + Len(a)) = a
    /\ Includes(SubSeq(s, i + Len(a) + 1, Len(s)), b)

\* C17: the prompt of every request a submit issues contains the base
\* prompt followed by the query with its placeholders resolved.
C17_MegaPromptHasBasePrompt ==
  [][\A i \in 1..Len(pending) :
       (pending' = Remove(pending, i) /\ Len(requests') = Len(requests) + 1) =>
         FollowedBy(requests'[Len(requests')].prompt, prompt,
                    runReplacements(pending[i].query))]_vars

\* one pass over the text s from left to right: each occurrence of a key is
\* replaced by its value (the first key in the order of reps that matches),
\* and the inserted value is not looked at again
RECURSIVE SubstituteTokens(_, _)
SubstituteTokens(s, reps) ==
  LET matching == {k \in 1..Len(reps) :
                     /\ Len(reps[k].key) <= Len(s)
                     /\ SubSeq(s, 1, Len(reps[k].key)) = reps[k].key}
  IN  IF Len(s) = 0 THEN ""
      ELSE IF matching = {} THEN CharAt(s, 1) \o SubstituteTokens(Tail(s), reps)
      ELSE LET k == CHOOSE a \in matching : \A b \in matching : a <= b
           IN  reps[k].value
                 \o SubstituteTokens(SubSeq(s, Len(reps[k].key) + 1, Len(s)), reps)

\* C18: the keyed substitution replaces the keys of the query by their
\* values, and a key that occurs in the value inserted for another key is
\* left as it is.
C18_NoRescanOfReplacedText ==
  (call.fn = "runReplacements" /\ call.returned) =>
    call.result = SubstituteTokens(call.query, call.replacements)

\* C19: the request body is the template with {prompt}, {basePrompt} and
\* {input} replaced by the values, whitespace runs collapsed and quotes
\* escaped, and a token inside a substituted value is not substituted;
\* {"q":"{prompt}"} with the prompt hi, newline, there gives {"q":"hi there"}.
C19_RequestBody ==
  (call.fn = "body" /\ call.returned) =>
    /\ call.result =
         SubstituteTokens(call.inputSchema,
           << [key |-> "{prompt}", value |-> Sanitize(call.prompt)],
              [key |-> "{basePrompt}", value |-> Sanitize(call.basePrompt)],
              [key |-> "{input}", value |-> Sanitize(input)] >>)
    /\ (call.inputSchema = "{\"q\":\"{prompt}\"}" /\ call.prompt = "hi\nthere") =>
         call.result = "{\"q\":\"hi there\"}"

\* C20: the trimming loop of onSubmit ends for every non-empty query and
\* every history: no submit hangs in it.
C20_TrimmingTerminates == phase # "hung"

\* request i was started by a submit, not by the initial query
StartedBySubmit(i) == i > (IF Len(initialQuery) > 0 THEN 1 ELSE 0)

\* C21: when the active request of a submit completes with a non-empty text
\* (the extracted output of a sync response, the accumulated text of a
\* stream that ends), the displayed response is that text afterwards.
C21_CompletedTextDisplayed ==
  [][\A i \in 1..Len(requests) :
       (StartedBySubmit(i) /\ Active(i)) =>
         /\ \A doc \in Docs :
              LET T == get(doc, outputKeyPath, JUndefined)
              IN  (SyncOk(i, doc) /\ T.t = "string" /\ Len(T.s) > 0) =>
                    currentResponse' = T.s
         /\ (AsyncEnd(i) /\ Len(requests[i].text) > 0) =>
              currentResponse' = requests[i].text]_vars

====
